---- MODULE Spec2Model ----
(***************************************************************************)
(* Model of the ctrmml track player (src/src/player.cpp): Basic_Player,    *)
(* Player and Track_Validator, driven over small songs.                    *)
(*                                                                         *)
(* A player object is the record `self`; the Song it points to is the      *)
(* variable `song` (shared, reached through Song& / Track&).  The member   *)
(* functions are operators on the record `w` that joins both, so that a    *)
(* whole call can be composed and compared; the actions run them one       *)
(* step_event() at a time.                                                 *)
(***************************************************************************)
EXTENDS Integers, Sequences, FiniteSets, TLC

VARIABLES
    song,   \* the Song: tracks (id -> events) and platform command ids
    self,   \* the player object (all members of Basic_Player / Player / Track_Validator)
    pc,     \* where the driver is: "idle", "tick", "skip", "skip_step", "skip_out", "validate"
    ticks,  \* the local `ticks` of a running skip_ticks() call
    hist    \* history of what was executed (observation only, never read by the player)

vars == <<song, self, pc, ticks, hist>>

(***************************************************************************)
(* Event types.  The enum order fixes the numbering Event::CHANNEL_CMD ..  *)
(* Event::CMD_COUNT of the generic channel commands.                       *)
(***************************************************************************)
EventTypes ==
    << "NOP", "REST", "NOTE", "LOOP_START", "LOOP_BREAK", "LOOP_END", "SEGNO",
       "JUMP", "END", "PLATFORM", "TRANSPOSE_REL", "VOL", "VOL_REL",
       "VOL_FINE_REL", "TEMPO_BPM",
       "CHANNEL_CMD", "TRANSPOSE", "VOL_FINE", "DRUM_MODE", "TEMPO" >>

\* The enumerator value of an event type.
Ord(t) == (CHOOSE i \in 1..Len(EventTypes) : EventTypes[i] = t) - 1

CHANNEL_CMD == Ord("CHANNEL_CMD")
CMD_COUNT == Len(EventTypes)
CHANNEL_CMD_COUNT == CMD_COUNT - CHANNEL_CMD

\* Whether InputError is caught by a catch(std::exception&) handler.
InputErrorIsStdException == TRUE

max_stack_depth == 10

NoFault == "none"
StackOverflow == "stack overflow (depth limit reached)"
UnterminatedLoop == "unterminated '[]' loop"
UnexpectedLoopEnd == "unexpected ']' loop end"
DrumNoNote == "drum routine contains no note"
UnknownStackType == "unknown stack type (BUG, please report)"
JumpMissing == "jump destination doesn't exist"
DrumTrackMissing == "drum mode error: track is not defined"
PlatformMissing == "Platform command is not defined"
UnsupportedType == "BUG: Unsupported event type"

\* An Event {type, on_time, off_time, param} (the reference is diagnostic only).
Ev(t, on, off, p) == [type |-> t, on_time |-> on, off_time |-> off, param |-> p]

\* A Player_Stack frame {type, track, position, end_position, loop_count}.
Frame(t, trk, pos, endpos, cnt) ==
    [type |-> t, track |-> trk, position |-> pos, end_position |-> endpos, loop_count |-> cnt]

\* int16_t storage of the channel state.
ToInt16(x) == ((x + 32768) % 65536) - 32768

Min(a, b) == IF a < b THEN a ELSE b

(***************************************************************************)
(* The dirty mask is the set of its set bits.                              *)
(***************************************************************************)
VOL_BIT == 30 + CHANNEL_CMD
BPM_BIT == 31 + CHANNEL_CMD
FLAG(w, flag) == (flag - CHANNEL_CMD) \in w.track_update_mask
FLAG_SET(w, flag) == [w EXCEPT !.track_update_mask = @ \cup {flag - CHANNEL_CMD}]
FLAG_CLR(w, flag) == [w EXCEPT !.track_update_mask = @ \ {flag - CHANNEL_CMD}]
CH_STATE(w, var) == w.track_state[var - CHANNEL_CMD]

(***************************************************************************)
(* Basic_Player                                                            *)
(***************************************************************************)
\* Basic_Player::error: the exception leaves the object as it is at the throw.
Error(w, message) == [w EXCEPT !.fault = message]

Faulted(w) == w.fault # NoFault

stack_underflow(w, type) ==
    Error(w, CASE type = "LOOP" -> UnterminatedLoop
               [] type = "JUMP" -> UnexpectedLoopEnd
               [] type = "DRUM_MODE" -> DrumNoNote
               [] OTHER -> UnknownStackType)

stack_push(w, frame) ==
    IF Len(w.stack) >= max_stack_depth
    THEN Error(w, StackOverflow)
    ELSE [w EXCEPT !.stack_depth[frame.type] = @ + 1,
                   !.stack = Append(@, frame)]

Top(w) == w.stack[Len(w.stack)]

\* stack_top naming the expected type also when another frame is on top.
stack_top_NamesExpected(w, type) ==
    IF Len(w.stack) = 0
    THEN stack_underflow(w, type)
    ELSE IF Top(w).type # type
         THEN stack_underflow(w, type)
         ELSE w

\* stack_top(type): the type check; the frame itself is Top(w).
stack_top(w, type) ==
    IF Len(w.stack) = 0
    THEN stack_underflow(w, type)
    ELSE IF Top(w).type # type
         THEN stack_underflow(w, Top(w).type)
         ELSE w

\* stack_pop(type) on a non-empty stack: the frame returned is Top(w).
stack_pop(w, type) ==
    LET popped == [w EXCEPT !.stack = SubSeq(@, 1, Len(@) - 1)]
    IN IF Top(w).type # type
       THEN stack_underflow(popped, Top(w).type)
       ELSE popped

get_stack_type(w) == IF Len(w.stack) = 0 THEN "MAX_STACK_TYPE" ELSE Top(w).type

get_stack_depth(w, type) == w.stack_depth[type]

get_play_time(w) == w.play_time

get_loop_count(w) == Min(w.loop_reset_count, w.loop_count)

is_enabled(w) == w.enabled

(***************************************************************************)
(* Player: write_event, handle_drum_mode, handle_event and the hooks       *)
(***************************************************************************)
write_event(w) ==
    IF w.event.type = "NOTE"
    THEN [w EXCEPT !.note_count = @ + 1]
    ELSE IF w.event.type \in {"REST", "END"}
         THEN [w EXCEPT !.rest_count = @ + 1]
         ELSE w

\* handle_drum_mode restoring the durations from the wrong frame fields.
handle_drum_mode_SwapsDurations(w) ==
    IF get_stack_type(w) # "DRUM_MODE"
    THEN LET offset == CH_STATE(w, Ord("DRUM_MODE"))
             target == offset + w.event.param
         IN IF target \notin DOMAIN w.song.tracks
            THEN Error(w, DrumTrackMissing)
            ELSE LET pushed == stack_push(w, Frame("DRUM_MODE", w.track, w.position,
                                                   w.on_time, w.off_time))
                 IN IF Faulted(pushed)
                    THEN IF InputErrorIsStdException
                         THEN Error(w, DrumTrackMissing)
                         ELSE pushed
                    ELSE [pushed EXCEPT !.track = target,
                                        !.position = 0,
                                        !.on_time = 0,
                                        !.off_time = 0,
                                        !.event.type = "NOP"]
    ELSE stack_pop([w EXCEPT !.on_time = Top(w).loop_count,
                             !.off_time = Top(w).end_position,
                             !.position = Top(w).position,
                             !.track = Top(w).track],
                   "DRUM_MODE")

handle_drum_mode(w) ==
    IF get_stack_type(w) # "DRUM_MODE"
    THEN LET offset == CH_STATE(w, Ord("DRUM_MODE"))
             target == offset + w.event.param
         IN IF target \notin DOMAIN w.song.tracks
            THEN Error(w, DrumTrackMissing)
            ELSE LET pushed == stack_push(w, Frame("DRUM_MODE", w.track, w.position,
                                                   w.on_time, w.off_time))
                 IN IF Faulted(pushed)
                    THEN IF InputErrorIsStdException
                         THEN Error(w, DrumTrackMissing)
                         ELSE pushed
                    ELSE [pushed EXCEPT !.track = target,
                                        !.position = 0,
                                        !.on_time = 0,
                                        !.off_time = 0,
                                        !.event.type = "NOP"]
    ELSE stack_pop([w EXCEPT !.on_time = Top(w).end_position,
                             !.off_time = Top(w).loop_count,
                             !.position = Top(w).position,
                             !.track = Top(w).track],
                   "DRUM_MODE")

\* The default: branch of handle_event (generic channel commands).
handle_channel_cmd(w) ==
    IF Ord(w.event.type) >= CHANNEL_CMD /\ Ord(w.event.type) < CMD_COUNT
    THEN LET type == Ord(w.event.type) - CHANNEL_CMD
             w1 == [w EXCEPT !.track_state[type] = ToInt16(w.event.param),
                             !.track_update_mask = @ \cup {type}]
             w2 == IF type = Ord("VOL_FINE") THEN FLAG_CLR(w1, VOL_BIT) ELSE w1
         IN IF type = Ord("TEMPO") THEN FLAG_CLR(w2, BPM_BIT) ELSE w2
    ELSE w

\* handle_volume without the FLAG_CLR(VOL_BIT) of VOL_FINE_REL.
handle_volume_FineKeepsCoarse(w) ==
    LET t == w.event.type
        base == IF t = "VOL" THEN 0 ELSE CH_STATE(w, Ord("VOL_FINE"))
        w1 == [w EXCEPT !.track_state[Ord("VOL_FINE") - CHANNEL_CMD] =
                            ToInt16(base + w.event.param)]
        w2 == FLAG_SET(w1, Ord("VOL_FINE"))
    IN IF t = "VOL_FINE_REL" THEN w2 ELSE FLAG_SET(w2, VOL_BIT)

\* case Event::VOL / VOL_REL / VOL_FINE_REL of handle_event.
handle_volume(w) ==
    LET t == w.event.type
        base == IF t = "VOL" THEN 0 ELSE CH_STATE(w, Ord("VOL_FINE"))
        w1 == [w EXCEPT !.track_state[Ord("VOL_FINE") - CHANNEL_CMD] =
                            ToInt16(base + w.event.param)]
        w2 == FLAG_SET(w1, Ord("VOL_FINE"))
    IN IF t = "VOL_FINE_REL" THEN FLAG_CLR(w2, VOL_BIT) ELSE FLAG_SET(w2, VOL_BIT)

\* The default parse_platform_event touches nothing.
parse_platform_event(w) == {}

handle_event(w) ==
    LET t == w.event.type
    IN CASE t = "NOTE" ->
              IF CH_STATE(w, Ord("DRUM_MODE")) # 0 THEN handle_drum_mode(w) ELSE w
         [] t = "PLATFORM" ->
              IF w.event.param \in w.song.platform
              THEN [w EXCEPT !.platform_update_mask = @ \cup parse_platform_event(w)]
              ELSE Error(w, PlatformMissing)
         [] t = "TRANSPOSE_REL" ->
              FLAG_SET([w EXCEPT !.track_state[Ord("TRANSPOSE") - CHANNEL_CMD] =
                                     ToInt16(@ + w.event.param)],
                       Ord("TRANSPOSE"))
         [] t \in {"VOL", "VOL_REL", "VOL_FINE_REL"} -> handle_volume(w)
         [] t = "TEMPO_BPM" ->
              FLAG_SET(FLAG_SET([w EXCEPT !.track_state[Ord("TEMPO") - CHANNEL_CMD] =
                                              ToInt16(w.event.param)],
                                Ord("TEMPO")),
                       BPM_BIT)
         [] OTHER -> handle_channel_cmd(w)

\* get_update_flag(type) for a type it supports.
get_update_flag(w, type) == FLAG(w, Ord(type))

\* clear_update_flag clearing the coarse-volume and BPM mode bits with the slot's bit.
clear_update_flag_ClearsMode(w, type) ==
    IF Ord(type) < CHANNEL_CMD \/ Ord(type) >= CMD_COUNT
    THEN Error(w, UnsupportedType)
    ELSE FLAG_CLR(FLAG_CLR(FLAG_CLR(w, Ord(type)), VOL_BIT), BPM_BIT)

clear_update_flag(w, type) ==
    IF Ord(type) < CHANNEL_CMD \/ Ord(type) >= CMD_COUNT
    THEN Error(w, UnsupportedType)
    ELSE FLAG_CLR(w, Ord(type))

coarse_volume_flag(w) == FLAG(w, VOL_BIT)

bpm_flag(w) == FLAG(w, BPM_BIT)

Player_event_hook(w) ==
    LET handled == handle_event(w)
    IN IF Faulted(handled) \/ handled.skip_flag
       THEN handled
       ELSE write_event(handled)

Player_loop_hook(w) == TRUE

Player_end_hook(w) == write_event([w EXCEPT !.event = Ev("END", 0, 0, 0)])

(***************************************************************************)
(* Track_Validator hooks                                                   *)
(***************************************************************************)
Validator_event_hook(w) ==
    IF w.event.type = "SEGNO" THEN [w EXCEPT !.segno_time = get_play_time(w)] ELSE w

Validator_loop_hook(w) == FALSE

\* Validator_end_hook taking the whole played time for the loop length.
Validator_end_hook_IgnoresSegno(w) ==
    IF w.segno_time >= 0
    THEN [w EXCEPT !.loop_time = get_play_time(w)]
    ELSE w

Validator_end_hook(w) ==
    IF w.segno_time >= 0
    THEN [w EXCEPT !.loop_time = get_play_time(w) - w.segno_time]
    ELSE w

get_loop_length(w) == w.loop_time

\* Virtual dispatch on the dynamic type of the object.
event_hook(w) == IF w.kind = "Player" THEN Player_event_hook(w) ELSE Validator_event_hook(w)
loop_hook(w) == IF w.kind = "Player" THEN Player_loop_hook(w) ELSE Validator_loop_hook(w)
end_hook(w) == IF w.kind = "Player" THEN Player_end_hook(w) ELSE Validator_end_hook(w)

(***************************************************************************)
(* Basic_Player::step_event                                                *)
(***************************************************************************)
\* Lines 126-146: fold the pending durations into play_time, fetch the event
\* (position++ happens before get_event can throw std::out_of_range) and load
\* its durations.  track_event is <<track, index>>, or <<>> for nullptr.
ReadEvent(w) ==
    LET trk == w.song.tracks[w.track]
        found == w.position < Len(trk)
        ev == IF found THEN trk[w.position + 1] ELSE Ev("END", 0, 0, 0)
    IN [w EXCEPT !.play_time = @ + w.on_time + w.off_time,
                 !.loop_reset_count =
                     IF w.position = w.loop_reset_position THEN w.loop_count ELSE @,
                 !.track_event = IF found THEN <<w.track, w.position>> ELSE <<>>,
                 !.position = @ + 1,
                 !.event = ev,
                 !.on_time = ev.on_time,
                 !.off_time = ev.off_time]

DoLoopStart(w) == stack_push(w, Frame("LOOP", w.track, w.position, 0, 0))

\* DoLoopBreak writing the end position into the wrong field of the track's event.
DoLoopBreak_PatchesDuration(w) ==
    LET checked == stack_top(w, "LOOP")
        te == w.track_event
        patched == [w EXCEPT !.song.tracks[te[1]][te[2] + 1].on_time = Top(w).end_position]
    IN IF Faulted(checked)
       THEN checked
       ELSE IF Top(w).loop_count = 1
            THEN [stack_pop(patched, "LOOP") EXCEPT !.position = Top(w).end_position]
            ELSE patched

DoLoopBreak(w) ==
    LET checked == stack_top(w, "LOOP")
        te == w.track_event
        patched == [w EXCEPT !.song.tracks[te[1]][te[2] + 1].param = Top(w).end_position]
    IN IF Faulted(checked)
       THEN checked
       ELSE IF Top(w).loop_count = 1
            THEN [stack_pop(patched, "LOOP") EXCEPT !.position = Top(w).end_position]
            ELSE patched

\* DoLoopEnd with the jump-back test off by one (>= 0 for > 0).
DoLoopEnd_OneMorePass(w) ==
    LET checked == stack_top(w, "LOOP")
        n == Len(w.stack)
        count == (IF Top(w).loop_count = 0 THEN w.event.param ELSE Top(w).loop_count) - 1
        updated == [w EXCEPT !.stack[n].end_position = w.position,
                             !.stack[n].loop_count = count]
    IN IF Faulted(checked)
       THEN checked
       ELSE IF count >= 0
            THEN [updated EXCEPT !.position = Top(w).position]
            ELSE stack_pop(updated, "LOOP")

DoLoopEnd(w) ==
    LET checked == stack_top(w, "LOOP")
        n == Len(w.stack)
        count == (IF Top(w).loop_count = 0 THEN w.event.param ELSE Top(w).loop_count) - 1
        updated == [w EXCEPT !.stack[n].end_position = w.position,
                             !.stack[n].loop_count = count]
    IN IF Faulted(checked)
       THEN checked
       ELSE IF count > 0
            THEN [updated EXCEPT !.position = Top(w).position]
            ELSE stack_pop(updated, "LOOP")

DoSegno(w) ==
    event_hook([w EXCEPT !.loop_position = w.position,
                         !.loop_reset_position = w.position])

\* DoJump saving the position of the JUMP itself instead of the one behind it.
DoJump_ReturnsToJump(w) ==
    IF w.event.param \notin DOMAIN w.song.tracks
    THEN Error(w, JumpMissing)
    ELSE LET pushed == stack_push(w, Frame("JUMP", w.track, w.position - 1, 0, 0))
         IN IF Faulted(pushed)
            THEN IF InputErrorIsStdException THEN Error(w, JumpMissing) ELSE pushed
            ELSE [pushed EXCEPT !.track = w.event.param, !.position = 0]

DoJump(w) ==
    IF w.event.param \notin DOMAIN w.song.tracks
    THEN Error(w, JumpMissing)
    ELSE LET pushed == stack_push(w, Frame("JUMP", w.track, w.position, 0, 0))
         IN IF Faulted(pushed)
            THEN IF InputErrorIsStdException THEN Error(w, JumpMissing) ELSE pushed
            ELSE [pushed EXCEPT !.track = w.event.param, !.position = 0]

\* DoEnd popping whatever frame is on top.
DoEnd_PopsAnyFrame(w) ==
    IF Len(w.stack) > 0
    THEN [w EXCEPT !.stack = SubSeq(@, 1, Len(@) - 1),
                   !.track = Top(w).track,
                   !.position = Top(w).position]
    ELSE IF w.loop_position # -1 /\ loop_hook(w)
         THEN [w EXCEPT !.position = w.loop_position, !.loop_count = @ + 1]
         ELSE end_hook([w EXCEPT !.enabled = FALSE])

DoEnd(w) ==
    IF Len(w.stack) > 0
    THEN LET checked == stack_top(w, "JUMP")
         IN IF Faulted(checked)
            THEN checked
            ELSE [stack_pop(w, "JUMP") EXCEPT !.track = Top(w).track,
                                              !.position = Top(w).position]
    ELSE IF w.loop_position # -1 /\ loop_hook(w)
         THEN [w EXCEPT !.position = w.loop_position, !.loop_count = @ + 1]
         ELSE end_hook([w EXCEPT !.enabled = FALSE])

\* The switch of step_event (lines 148-219).
Dispatch(w) ==
    LET t == w.event.type
    IN CASE t = "LOOP_START" -> DoLoopStart(w)
         [] t = "LOOP_BREAK" -> DoLoopBreak(w)
         [] t = "LOOP_END" -> DoLoopEnd(w)
         [] t = "SEGNO" -> DoSegno(w)
         [] t = "JUMP" -> DoJump(w)
         [] t = "END" -> DoEnd(w)
         [] OTHER -> event_hook(w)

step_event(w) == Dispatch(ReadEvent(w))

(***************************************************************************)
(* Player::play_tick, cut at its loop                                      *)
(***************************************************************************)
\* PlayTickCount writing the key-off also when no off-duration is pending.
PlayTickCount_KeyOffAlways(w) ==
    IF w.on_time > 0
    THEN IF w.on_time = 1
         THEN write_event([w EXCEPT !.on_time = 0, !.event = Ev("REST", 0, 0, 0)])
         ELSE [w EXCEPT !.on_time = @ - 1]
    ELSE IF w.off_time > 0
         THEN [w EXCEPT !.off_time = @ - 1]
         ELSE w

\* Lines 471-484: count the tick down; the key-off REST goes to write_event.
PlayTickCount(w) ==
    IF w.on_time > 0
    THEN IF w.on_time = 1 /\ w.off_time > 0
         THEN write_event([w EXCEPT !.on_time = 0, !.event = Ev("REST", 0, 0, 0)])
         ELSE [w EXCEPT !.on_time = @ - 1]
    ELSE IF w.off_time > 0
         THEN [w EXCEPT !.off_time = @ - 1]
         ELSE w

\* The condition of the while loop at line 485.
PlayTickMore(w) == is_enabled(w) /\ w.on_time = 0 /\ w.off_time = 0

\* Line 489 made conditional on is_enabled().
PlayTickDone_StopsCounting(w) ==
    IF is_enabled(w) THEN [w EXCEPT !.play_time = @ + 1] ELSE w

\* Line 489.
PlayTickDone(w) == [w EXCEPT !.play_time = @ + 1]

(***************************************************************************)
(* Player::skip_ticks, cut at its loop; t is the local `ticks`             *)
(***************************************************************************)
\* SkipDisabled starting the track over.
SkipDisabled_Rewinds(w, t) == [w EXCEPT !.play_time = @ + t, !.position = 0]

\* Lines 436-441.
SkipDisabled(w, t) == [w EXCEPT !.play_time = @ + t]
SkipStart(w) == [w EXCEPT !.skip_flag = TRUE]

\* The condition of the while loop at line 442.
SkipMore(w, t) == t > 0 /\ is_enabled(w)

\* Lines 444-460: drain the pending durations.  Yields the object, the ticks
\* left and whether the loop was left by break.
SkipDrain(w, t) ==
    IF w.on_time > t
    THEN [w |-> [w EXCEPT !.on_time = @ - t], t |-> t, brk |-> TRUE]
    ELSE LET t1 == t - w.on_time
             w1 == [w EXCEPT !.play_time = @ + w.on_time, !.on_time = 0]
         IN IF w.off_time > t1
            THEN [w |-> [w1 EXCEPT !.off_time = @ - t1], t |-> t1, brk |-> TRUE]
            ELSE [w |-> [w1 EXCEPT !.play_time = @ + w.off_time, !.off_time = 0],
                  t |-> t1 - w.off_time, brk |-> FALSE]

\* SkipDone without the `play_time += ticks` of line 464.
SkipDone_DropsRest(w, t) == [w EXCEPT !.skip_flag = FALSE]

\* Lines 464-465.
SkipDone(w, t) == [w EXCEPT !.play_time = @ + t, !.skip_flag = FALSE]

(***************************************************************************)
(* Songs                                                                   *)
(***************************************************************************)
MaxLen == 3        \* longest generated main track
MaxPlayTime == 8   \* ticks a driver asks for in all
MaxSkip == 3       \* largest skip_ticks argument
MaxLoops == 3      \* passes through the SEGNO loop that are followed
MaxSteps == 12     \* step_event calls followed inside one composed call
MaxDriven == 14    \* ticks of a driver that calls play_tick() until the end

NOTE(on, off) == Ev("NOTE", on, off, 0)
REST(on) == Ev("REST", on, 0, 0)
LOOP_START == Ev("LOOP_START", 0, 0, 0)
LOOP_BREAK == Ev("LOOP_BREAK", 0, 0, 0)
LOOP_END(k) == Ev("LOOP_END", 0, 0, k)
SEGNO == Ev("SEGNO", 0, 0, 0)
JUMP(t) == Ev("JUMP", 0, 0, t)
END == Ev("END", 0, 0, 0)
Cmd(t, p) == Ev(t, 0, 0, p)

SeqsUpTo(A, n) == UNION {[1..k -> A] : k \in 0..n}

\* Track 1 of the generated songs: a subroutine, also usable as a drum routine.
Routine == <<REST(1), NOTE(2, 1)>>

ControlEvents == {LOOP_START, LOOP_BREAK, LOOP_END(1), LOOP_END(2), NOTE(1, 1), SEGNO, JUMP(1)}

VolumeEvents ==
    {Cmd("VOL", 5), Cmd("VOL_REL", 3), Cmd("VOL_FINE_REL", -2), Cmd("VOL_FINE", 7),
     Cmd("TEMPO_BPM", 120), Cmd("TEMPO", 9), NOTE(1, 0)}

MakeSong(main, sub) == [tracks |-> (0 :> main) @@ (1 :> sub), platform |-> {0}]

GeneratedSongs ==
    {MakeSong(m, Routine) : m \in SeqsUpTo(ControlEvents, MaxLen) \cup SeqsUpTo(VolumeEvents, MaxLen)}

\* The end-to-end example of the specification.
ExampleTrack == <<NOTE(4, 2), LOOP_START, NOTE(1, 1), LOOP_END(3), END>>

ScenarioSongs ==
    { MakeSong(ExampleTrack, Routine),
      \* a loop of three passes and a break with a remaining body
      MakeSong(<<LOOP_START, NOTE(1, 1), LOOP_END(3), END>>, Routine),
      MakeSong(<<LOOP_START, NOTE(1, 0), LOOP_BREAK, NOTE(1, 1), LOOP_END(3)>>, Routine),
      MakeSong(<<LOOP_START, LOOP_BREAK, NOTE(1, 1), LOOP_END(1), NOTE(2, 0)>>, Routine),
      \* nested loops
      MakeSong(<<LOOP_START, LOOP_START, NOTE(1, 0), LOOP_END(2), LOOP_BREAK, REST(1),
                 LOOP_END(2)>>, Routine),
      \* recursion to the depth limit by LOOP_START, by JUMP and by a drum call
      MakeSong(<<LOOP_START, JUMP(0)>>, Routine),
      MakeSong(<<JUMP(0)>>, Routine),
      MakeSong(<<JUMP(1)>>, <<LOOP_START, JUMP(1)>>),
      MakeSong(<<Cmd("DRUM_MODE", 1), JUMP(1)>>, <<LOOP_START, NOTE(0, 0)>>),
      MakeSong(<<Cmd("DRUM_MODE", 1), LOOP_START, JUMP(1)>>, <<LOOP_START, NOTE(0, 0)>>),
      \* drum mode: the call NOTE, the routine, the returning NOTE
      MakeSong(<<Cmd("DRUM_MODE", 1), NOTE(3, 1), NOTE(1, 2), REST(1)>>, Routine),
      MakeSong(<<Cmd("DRUM_MODE", 1), SEGNO, NOTE(1, 1), Cmd("DRUM_MODE", 0), NOTE(1, 0)>>, Routine),
      MakeSong(<<Cmd("DRUM_MODE", 1), NOTE(1, 0)>>, <<REST(1)>>),
      MakeSong(<<Cmd("DRUM_MODE", 5), NOTE(1, 0)>>, Routine),
      \* a jump that is not resolved, a SEGNO inside a subroutine, platform commands
      MakeSong(<<NOTE(1, 0), JUMP(7)>>, Routine),
      MakeSong(<<JUMP(1), NOTE(1, 1)>>, <<SEGNO, NOTE(1, 0)>>),
      MakeSong(<<Cmd("PLATFORM", 0), NOTE(1, 0), Cmd("PLATFORM", 3)>>, Routine),
      \* parameters at the edge of int16_t
      MakeSong(<<Cmd("VOL", 32767), Cmd("VOL_REL", 3), NOTE(1, 0), Cmd("VOL_FINE_REL", 2)>>, Routine),
      MakeSong(<<Cmd("TRANSPOSE", -32768), Cmd("TRANSPOSE_REL", -1), NOTE(1, 0)>>, Routine),
      \* LOOP_END and LOOP_BREAK met with a Jump frame or a Drum frame on top
      MakeSong(<<LOOP_START, JUMP(1)>>, <<LOOP_END(2)>>),
      MakeSong(<<LOOP_START, JUMP(1)>>, <<LOOP_BREAK>>),
      MakeSong(<<Cmd("DRUM_MODE", 1), NOTE(1, 0)>>, <<LOOP_END(2)>>),
      MakeSong(<<Cmd("DRUM_MODE", 1), NOTE(1, 0)>>, <<LOOP_BREAK>>),
      \* a loop region without duration
      MakeSong(<<NOTE(1, 0), SEGNO, Cmd("VOL_REL", 1)>>, Routine) }

Songs == GeneratedSongs \cup ScenarioSongs

(***************************************************************************)
(* The object after construction                                           *)
(***************************************************************************)
StackTypes == {"LOOP", "JUMP", "DRUM_MODE"}

\* Basic_Player(song, track) with the members of Player / Track_Validator.
Construct(kind) ==
    [kind |-> kind,
     track |-> 0,
     enabled |-> TRUE,
     position |-> 0,
     loop_position |-> -1,
     loop_reset_position |-> -1,
     stack |-> <<>>,
     stack_depth |-> [t \in StackTypes |-> 0],
     loop_count |-> 0,
     loop_reset_count |-> 0,
     play_time |-> 0,
     on_time |-> 0,
     off_time |-> 0,
     event |-> Ev("NOP", 0, 0, 0),
     track_event |-> <<>>,
     skip_flag |-> FALSE,
     note_count |-> 0,
     rest_count |-> 0,
     platform_state |-> [i \in 0..31 |-> 0],
     platform_update_mask |-> {},
     track_state |-> [i \in 0..(CHANNEL_CMD_COUNT - 1) |-> 0],
     track_update_mask |-> {},
     segno_time |-> -1,
     loop_time |-> 0,
     fault |-> NoFault]

\* The object together with the song it points to, and back.
Join(obj, sg) == [f \in DOMAIN obj \cup {"song"} |-> IF f = "song" THEN sg ELSE obj[f]]
Object(w) == [f \in DOMAIN w \ {"song"} |-> w[f]]
W == Join(self, song)

(***************************************************************************)
(* What a step_event() call executed (read by the properties only)         *)
(***************************************************************************)
NoHistory ==
    [iters |-> <<>>,        \* per stack frame: passes begun through a loop body
     last_vol |-> "none",   \* the last event that wrote the fine volume
     vol_sum |-> 0,         \* the parameters added up since the last absolute write
     vol_based |-> FALSE,   \* whether that absolute write was a VOL event
     dur_sum |-> 0,         \* on+off durations of the events fetched
     pend_sum |-> 0,        \* on+off durations left pending by the events executed
     notes_run |-> 0,       \* NOTE events fetched
     notes_out |-> 0,       \* NOTE events handed on as a NOTE
     segno_at |-> -1,       \* dur_sum when the last SEGNO was fetched, -1 without one
     segno_track |-> -1,    \* the track of the last SEGNO executed
     segno_pos |-> -1,      \* its index in that track
     asked |-> 0,           \* ticks asked for: 1 per play_tick(), n per skip_ticks(n)
     end_hooks |-> 0]       \* calls of end_hook()

\* A NOTE that enters a drum routine (handle_drum_mode, first branch).
IsDrumCall(pre, ev) ==
    /\ pre.kind = "Player"
    /\ ev.type = "NOTE"
    /\ CH_STATE(pre, Ord("DRUM_MODE")) # 0
    /\ get_stack_type(pre) # "DRUM_MODE"

\* A step_event() call that gets to the end_hook() call of line 212.
CallsEndHook(pre) ==
    /\ ReadEvent(pre).event.type = "END"
    /\ Len(pre.stack) = 0
    /\ ~(pre.loop_position # -1 /\ loop_hook(pre))

\* The history after the step_event() call that took `pre` to `post`.
Observe(h, pre, post) ==
    LET ev == ReadEvent(pre).event
        volume == pre.kind = "Player" /\ ~Faulted(post)
        n == Len(h.iters)
    IN [h EXCEPT
          !.iters = IF Faulted(post) THEN @
                    ELSE IF Len(post.stack) > Len(pre.stack) THEN Append(@, 1)
                    ELSE IF Len(post.stack) < Len(pre.stack) THEN SubSeq(@, 1, n - 1)
                    ELSE IF ev.type = "LOOP_END" THEN [@ EXCEPT ![n] = @ + 1]
                    ELSE @,
          !.last_vol = IF volume /\ ev.type \in {"VOL", "VOL_REL", "VOL_FINE_REL", "VOL_FINE"}
                       THEN ev.type ELSE @,
          !.vol_sum = IF volume /\ ev.type \in {"VOL", "VOL_FINE"} THEN ev.param
                      ELSE IF volume /\ ev.type \in {"VOL_REL", "VOL_FINE_REL"}
                           THEN @ + ev.param ELSE @,
          !.vol_based = IF volume /\ ev.type \in {"VOL", "VOL_FINE"}
                        THEN ev.type = "VOL" ELSE @,
          !.dur_sum = @ + ev.on_time + ev.off_time,
          !.pend_sum = IF Faulted(post) THEN @ ELSE @ + post.on_time + post.off_time,
          !.notes_run = IF ev.type = "NOTE" THEN @ + 1 ELSE @,
          !.notes_out = IF ev.type = "NOTE" /\ ~Faulted(post) /\ ~IsDrumCall(pre, ev)
                        THEN @ + 1 ELSE @,
          !.segno_at = IF ev.type = "SEGNO" /\ ~Faulted(post) THEN h.dur_sum ELSE @,
          !.segno_track = IF ev.type = "SEGNO" /\ ~Faulted(post) THEN pre.track ELSE @,
          !.segno_pos = IF ev.type = "SEGNO" /\ ~Faulted(post) THEN pre.position ELSE @,
          !.end_hooks = IF CallsEndHook(pre) THEN @ + 1 ELSE @]

(***************************************************************************)
(* The state machine                                                       *)
(***************************************************************************)
Init ==
    /\ song \in Songs
    /\ \E kind \in {"Player", "Track_Validator"} :
          /\ self = Construct(kind)
          /\ pc = IF kind = "Player" THEN "idle" ELSE "validate"
    /\ ticks = 0
    /\ hist = NoHistory

\* The object and the song after a member function ran.
Set(w) ==
    /\ song' = w.song
    /\ self' = Object(w)

\* One step_event() call.
Step ==
    /\ self.loop_count < MaxLoops
    /\ Set(step_event(W))
    /\ hist' = Observe(hist, W, step_event(W))

\* play_tick() up to its loop.
PlayTickBegin ==
    /\ pc = "idle"
    /\ self.kind = "Player"
    /\ ~Faulted(self)
    /\ self.play_time < MaxPlayTime
    /\ Set(PlayTickCount(W))
    /\ pc' = "tick"
    /\ hist' = [hist EXCEPT !.asked = @ + 1]
    /\ UNCHANGED ticks

\* One pass of the loop of play_tick().
PlayTickStep ==
    /\ pc = "tick"
    /\ ~Faulted(self)
    /\ PlayTickMore(W)
    /\ Step
    /\ UNCHANGED <<pc, ticks>>

\* play_tick() returns.
PlayTickEnd ==
    /\ pc = "tick"
    /\ ~Faulted(self)
    /\ ~PlayTickMore(W)
    /\ Set(PlayTickDone(W))
    /\ pc' = "idle"
    /\ UNCHANGED <<ticks, hist>>

\* skip_ticks(n) up to its loop.
SkipBegin(n) ==
    /\ pc = "idle"
    /\ self.kind = "Player"
    /\ ~Faulted(self)
    /\ self.play_time + n <= MaxPlayTime
    /\ IF ~is_enabled(W)
       THEN /\ Set(SkipDisabled(W, n))
            /\ UNCHANGED <<pc, ticks>>
       ELSE /\ Set(SkipStart(W))
            /\ pc' = "skip"
            /\ ticks' = n
    /\ hist' = [hist EXCEPT !.asked = @ + n]

\* One pass of the loop of skip_ticks() up to its step_event() call.
SkipLoop ==
    /\ pc = "skip"
    /\ ~Faulted(self)
    /\ SkipMore(W, ticks)
    /\ LET d == SkipDrain(W, ticks)
       IN /\ Set(d.w)
          /\ ticks' = d.t
          /\ pc' = IF d.brk THEN "skip_out" ELSE "skip_step"
    /\ UNCHANGED hist

\* The step_event() call of the loop of skip_ticks().
SkipStep ==
    /\ pc = "skip_step"
    /\ ~Faulted(self)
    /\ Step
    /\ pc' = "skip"
    /\ UNCHANGED ticks

\* skip_ticks() returns.
SkipEnd ==
    /\ \/ pc = "skip" /\ ~SkipMore(W, ticks)
       \/ pc = "skip_out"
    /\ ~Faulted(self)
    /\ Set(SkipDone(W, ticks))
    /\ pc' = "idle"
    /\ ticks' = 0
    /\ UNCHANGED hist

\* One pass of the loop of the Track_Validator constructor.
ValidatorStep ==
    /\ pc = "validate"
    /\ ~Faulted(self)
    /\ is_enabled(W)
    /\ Step
    /\ UNCHANGED <<pc, ticks>>

Next ==
    \/ PlayTickBegin
    \/ PlayTickStep
    \/ PlayTickEnd
    \/ \E n \in 0..MaxSkip : SkipBegin(n)
    \/ SkipLoop
    \/ SkipStep
    \/ SkipEnd
    \/ ValidatorStep

Spec == Init /\ [][Next]_vars

\* A Player driven by `while(is_enabled()) play_tick()`.
PlayOnlyTick ==
    /\ pc = "idle"
    /\ ~Faulted(self)
    /\ is_enabled(W)
    /\ self.play_time < MaxDriven
    /\ Set(PlayTickCount(W))
    /\ pc' = "tick"
    /\ hist' = [hist EXCEPT !.asked = @ + 1]
    /\ UNCHANGED ticks

NextPlay ==
    \/ PlayOnlyTick
    \/ PlayTickStep
    \/ PlayTickEnd

InitPlay ==
    /\ Init
    /\ self.kind = "Player"

SpecPlay == InitPlay /\ [][NextPlay]_vars

\* A transition that is one step_event() call.
IsStep ==
    \/ pc = "tick" /\ pc' = "tick"
    \/ pc = "skip_step"
    \/ pc = "validate" /\ pc' = "validate"

(***************************************************************************)
(* Whole calls, composed from the pieces above                             *)
(***************************************************************************)
OutOfSteps == "more than MaxSteps step_event calls in one call"

RECURSIVE PlayTickLoop(_, _)
PlayTickLoop(w, fuel) ==
    IF Faulted(w) THEN w
    ELSE IF ~PlayTickMore(w) THEN PlayTickDone(w)
    ELSE IF fuel = 0 THEN Error(w, OutOfSteps)
    ELSE PlayTickLoop(step_event(w), fuel - 1)

play_tick(w) == PlayTickLoop(PlayTickCount(w), MaxSteps)

RECURSIVE PlayTicks(_, _)
PlayTicks(w, n) == IF n = 0 \/ Faulted(w) THEN w ELSE PlayTicks(play_tick(w), n - 1)

RECURSIVE SkipTicksLoop(_, _, _)
SkipTicksLoop(w, t, fuel) ==
    IF Faulted(w) THEN w
    ELSE IF ~SkipMore(w, t) THEN SkipDone(w, t)
    ELSE LET d == SkipDrain(w, t)
         IN IF d.brk THEN SkipDone(d.w, d.t)
            ELSE IF fuel = 0 THEN Error(w, OutOfSteps)
            ELSE SkipTicksLoop(step_event(d.w), d.t, fuel - 1)

skip_ticks(w, n) ==
    IF ~is_enabled(w) THEN SkipDisabled(w, n) ELSE SkipTicksLoop(SkipStart(w), n, MaxSteps)

\* What the fast-forward equivalence compares.
PlayerView(w) ==
    [track |-> w.track, position |-> w.position,
     on_time |-> w.on_time, off_time |-> w.off_time, play_time |-> w.play_time,
     track_state |-> w.track_state, track_update_mask |-> w.track_update_mask,
     platform_state |-> w.platform_state, platform_update_mask |-> w.platform_update_mask]

BetweenCalls == pc = "idle" /\ self.kind = "Player" /\ ~Faulted(self)

(***************************************************************************)
(* C1: from every state a Player reaches between calls, and for every n,   *)
(* skip_ticks(n) leaves the same track, position, pending durations,       *)
(* played time, channel state, platform state and dirty masks as n         *)
(* play_tick() calls.                                                      *)
(***************************************************************************)
C1_FastForwardEquivalence ==
    BetweenCalls =>
        \A n \in 0..MaxSkip :
            LET skipped == skip_ticks(W, n)
                played == PlayTicks(W, n)
            IN (~Faulted(skipped) /\ ~Faulted(played)) =>
                   PlayerView(skipped) = PlayerView(played)

\* The event a step_event() call fetches in the current state.
Fetched == ReadEvent(W).event

\* A step_event() call that returned without a fault.
GoodStep == IsStep /\ ~Faulted(self')

LoopExample == <<LOOP_START, NOTE(1, 1), LOOP_END(3), END>>

(***************************************************************************)
(* C2: the body of a loop closed by LOOP_END(count = k), k >= 1, is passed *)
(* through exactly k times: a LOOP_END executed in pass number i < k jumps *)
(* back to the start of the body and keeps the frame, in pass number k it  *)
(* pops the frame and execution goes on behind the LOOP_END; nested loops  *)
(* included.  [LOOP_START, NOTE(1,1), LOOP_END(3), END] plays the NOTE     *)
(* three times.                                                            *)
(***************************************************************************)
C2_LoopRepetition ==
    /\ [](song.tracks[0] = LoopExample =>
             /\ hist.notes_run <= 3
             /\ (~self.enabled /\ ~Faulted(self)) => hist.notes_run = 3)
    /\ [][(GoodStep /\ Fetched.type = "LOOP_END" /\ Fetched.param >= 1) =>
             LET n == Len(self.stack)
                 k == Fetched.param
                 passes == hist.iters[n]
             IN IF passes = k
                THEN /\ self'.stack = SubSeq(self.stack, 1, n - 1)
                     /\ self'.position = self.position + 1
                     /\ self'.track = self.track
                ELSE /\ passes < k
                     /\ Len(self'.stack) = n
                     /\ self'.position = self.stack[n].position
                     /\ self'.track = self.track
                     /\ hist'.iters[n] = passes + 1]_vars

\* The three passes of the example are done and the frame is gone.
C2_Witness ==
    /\ song.tracks[0] = LoopExample
    /\ self.kind = "Player"
    /\ ~self.enabled
    /\ self.stack = <<>>
    /\ hist.notes_run = 3
    /\ self.note_count = 3

\* The index of the LOOP_END that closes the loop open at index i of a track
\* (0-based, nesting counted), or -1.
RECURSIVE MatchingLoopEnd(_, _, _)
MatchingLoopEnd(trk, i, depth) ==
    IF i >= Len(trk) THEN -1
    ELSE IF trk[i + 1].type = "LOOP_START" THEN MatchingLoopEnd(trk, i + 1, depth + 1)
    ELSE IF trk[i + 1].type = "LOOP_END"
         THEN IF depth = 0 THEN i ELSE MatchingLoopEnd(trk, i + 1, depth - 1)
    ELSE MatchingLoopEnd(trk, i + 1, depth)

\* A LOOP_BREAK is fetched inside a loop of this track whose LOOP_END has count >= 1.
BreakInLoop ==
    /\ IsStep
    /\ Fetched.type = "LOOP_BREAK"
    /\ get_stack_type(W) = "LOOP"
    /\ Top(W).track = self.track
    /\ MatchingLoopEnd(song.tracks[self.track], self.position + 1, 0) >= 0
    /\ song.tracks[self.track][MatchingLoopEnd(song.tracks[self.track], self.position + 1, 0) + 1].param >= 1

\* What the LOOP_BREAK does in pass number `passes` of a loop of k passes.
BreakLeavesIn(last) ==
    LET n == Len(self.stack)
        e == MatchingLoopEnd(song.tracks[self.track], self.position + 1, 0)
    IN /\ ~Faulted(self')
       /\ IF last
          THEN /\ self'.stack = SubSeq(self.stack, 1, n - 1)
               /\ self'.position = e + 1
          ELSE /\ self'.stack = self.stack
               /\ self'.position = self.position + 1

(***************************************************************************)
(* C3: a LOOP_BREAK executed in the k-th pass of a loop of k >= 1 passes   *)
(* (k = 1 included) pops the Loop frame and moves the position behind the  *)
(* matching LOOP_END; in an earlier pass it leaves position and stack      *)
(* alone.                                                                  *)
(***************************************************************************)
C3_BreakOnFinalPass ==
    [][BreakInLoop =>
          LET e == MatchingLoopEnd(song.tracks[self.track], self.position + 1, 0)
              k == song.tracks[self.track][e + 1].param
          IN BreakLeavesIn(hist.iters[Len(self.stack)] = k)]_vars

\* The stack without its top frame.
Popped(stack) == SubSeq(stack, 1, Len(stack) - 1)

\* Every Jump frame was pushed by the JUMP event just before its saved position.
JumpFramesReturnBehindJump ==
    \A i \in 1..Len(self.stack) :
        LET f == self.stack[i]
        IN f.type = "JUMP" =>
               /\ f.position >= 1
               /\ f.position <= Len(song.tracks[f.track])
               /\ song.tracks[f.track][f.position].type = "JUMP"

(***************************************************************************)
(* C4: a JUMP at position p of track A to an existing track T pushes one   *)
(* Jump frame and continues with T[0]; an END (explicit or at the end of   *)
(* the data) reached with that Jump frame on top pops it and continues     *)
(* with A[p+1], the stack being what it was before the JUMP.               *)
(***************************************************************************)
C4_JumpReturn ==
    /\ []JumpFramesReturnBehindJump
    /\ [][/\ (GoodStep /\ Fetched.type = "JUMP") =>
                /\ self'.track = Fetched.param
                /\ self'.position = 0
                /\ self'.stack = Append(self.stack,
                                        Frame("JUMP", self.track, self.position + 1, 0, 0))
          /\ (IsStep /\ Fetched.type = "END" /\ get_stack_type(W) = "JUMP") =>
                /\ ~Faulted(self')
                /\ self'.track = Top(W).track
                /\ self'.position = Top(W).position
                /\ self'.stack = Popped(self.stack)]_vars

\* [JUMP(1), NOTE(1,1)]: the routine was played and the NOTE behind the JUMP is playing.
C4_Witness ==
    /\ song.tracks[0] = <<JUMP(1), NOTE(1, 1)>>
    /\ song.tracks[1] = Routine
    /\ self.track = 0
    /\ self.position = 2
    /\ self.stack = <<>>
    /\ self.event = NOTE(1, 1)
    /\ hist.notes_run = 2

\* Every Drum frame holds the caller's track, the position behind the calling
\* NOTE and that NOTE's durations.
DrumFramesHoldCaller ==
    \A i \in 1..Len(self.stack) :
        LET f == self.stack[i]
        IN f.type = "DRUM_MODE" =>
               /\ f.position >= 1
               /\ f.position <= Len(song.tracks[f.track])
               /\ song.tracks[f.track][f.position].type = "NOTE"
               /\ song.tracks[f.track][f.position].on_time = f.end_position
               /\ song.tracks[f.track][f.position].off_time = f.loop_count

DrumModeOn == self.kind = "Player" /\ CH_STATE(W, Ord("DRUM_MODE")) # 0

(***************************************************************************)
(* C5: with drum mode active, a NOTE(on, off) at position p of track A     *)
(* pushes one Drum frame and switches to position 0 of the routine track   *)
(* with no pending duration; the NOTE the routine executes with that frame *)
(* on top pops it and restores on_time = on, off_time = off, track = A,    *)
(* position = p+1, the stack being what it was before the first NOTE.      *)
(***************************************************************************)
C5_DrumRoundTrip ==
    /\ []DrumFramesHoldCaller
    /\ [][/\ (GoodStep /\ IsDrumCall(W, Fetched)) =>
                /\ self'.stack = Append(self.stack,
                                        Frame("DRUM_MODE", self.track, self.position + 1,
                                              Fetched.on_time, Fetched.off_time))
                /\ self'.track = CH_STATE(W, Ord("DRUM_MODE")) + Fetched.param
                /\ self'.position = 0
                /\ self'.on_time = 0
                /\ self'.off_time = 0
          /\ (IsStep /\ DrumModeOn /\ Fetched.type = "NOTE"
                     /\ get_stack_type(W) = "DRUM_MODE") =>
                /\ ~Faulted(self')
                /\ self'.on_time = Top(W).end_position
                /\ self'.off_time = Top(W).loop_count
                /\ self'.track = Top(W).track
                /\ self'.position = Top(W).position
                /\ self'.stack = Popped(self.stack)]_vars

\* [DRUM_MODE 1, NOTE(3,1), ...]: the routine's NOTE(2,1) has returned with the
\* caller's durations 3 and 1.
C5_Witness ==
    /\ song.tracks[0] = <<Cmd("DRUM_MODE", 1), NOTE(3, 1), NOTE(1, 2), REST(1)>>
    /\ song.tracks[1] = Routine
    /\ self.kind = "Player"
    /\ self.event.type = "NOTE"
    /\ self.track = 0
    /\ self.position = 2
    /\ self.on_time = 3
    /\ self.off_time = 1
    /\ self.stack = <<>>
    /\ self.stack_depth["DRUM_MODE"] = 1

\* A step_event() call that pushes a frame if the song resolves its target.
IsPush ==
    /\ IsStep
    /\ \/ Fetched.type = "LOOP_START"
       \/ Fetched.type = "JUMP" /\ Fetched.param \in DOMAIN song.tracks
       \/ /\ IsDrumCall(W, Fetched)
          /\ CH_STATE(W, Ord("DRUM_MODE")) + Fetched.param \in DOMAIN song.tracks

(***************************************************************************)
(* C6: with N frames on the stack, the push of a Loop frame (LOOP_START),  *)
(* a Jump frame (JUMP) or a Drum frame (drum-mode NOTE) succeeds when      *)
(* N < max_stack_depth and fails with the stack-overflow fault, and no     *)
(* other, when N = max_stack_depth; the depth never exceeds                *)
(* max_stack_depth.                                                        *)
(***************************************************************************)
C6_StackBound ==
    /\ [](Len(self.stack) <= max_stack_depth)
    /\ [][IsPush =>
             IF Len(self.stack) < max_stack_depth
             THEN ~Faulted(self') /\ Len(self'.stack) = Len(self.stack) + 1
             ELSE self'.fault = StackOverflow /\ self'.stack = self.stack]_vars

GenericWrite ==
    /\ GoodStep
    /\ self.kind = "Player"
    /\ Ord(Fetched.type) >= CHANNEL_CMD
    /\ Ord(Fetched.type) < CMD_COUNT

(***************************************************************************)
(* C8: after a generic channel command that writes the fine-volume slot    *)
(* coarse_volume_flag() is false, after one that writes the tempo slot     *)
(* bpm_flag() is false, whatever came before; a generic write to another   *)
(* slot leaves both flags as they are.                                     *)
(***************************************************************************)
C8_GenericWriteClearsFlag ==
    [][GenericWrite =>
          /\ Fetched.type = "VOL_FINE" => ~coarse_volume_flag(self')
          /\ Fetched.type = "TEMPO" => ~bpm_flag(self')
          /\ Fetched.type \notin {"VOL_FINE", "TEMPO"} =>
                /\ coarse_volume_flag(self') = coarse_volume_flag(self)
                /\ bpm_flag(self') = bpm_flag(self)]_vars

(***************************************************************************)
(* C9: among VOL, VOL_REL and VOL_FINE_REL the last one executed decides   *)
(* coarse_volume_flag(): true after VOL or VOL_REL, false after            *)
(* VOL_FINE_REL (so VOL then VOL_FINE_REL leaves it false).  The fine      *)
(* volume is the parameter of the last VOL plus the parameters of the      *)
(* VOL_REL / VOL_FINE_REL events after it, as an int16_t, and each of the  *)
(* three events sets the dirty bit of the fine volume.                     *)
(***************************************************************************)
C9_VolumeFlagPrecedence ==
    /\ [](/\ hist.last_vol \in {"VOL", "VOL_REL"} => coarse_volume_flag(self)
          /\ hist.last_vol = "VOL_FINE_REL" => ~coarse_volume_flag(self)
          /\ hist.vol_based => CH_STATE(self, Ord("VOL_FINE")) = ToInt16(hist.vol_sum))
    /\ [][(GoodStep /\ self.kind = "Player"
                    /\ Fetched.type \in {"VOL", "VOL_REL", "VOL_FINE_REL"}) =>
             FLAG(self', Ord("VOL_FINE"))]_vars

\* VOL 5 then VOL_FINE_REL -2: the value is 3 and the flag is false again.
C9_Witness ==
    /\ hist.last_vol = "VOL_FINE_REL"
    /\ hist.vol_based
    /\ hist.vol_sum = 3
    /\ CH_STATE(self, Ord("VOL_FINE")) = 3
    /\ FLAG(self, Ord("VOL_FINE"))
    /\ ~coarse_volume_flag(self)

\* play_tick() has just returned with the player disabled (under SpecPlay the
\* driver stops here).
PlayedToTheEnd == pc = "idle" /\ ~is_enabled(W) /\ ~Faulted(self)

(***************************************************************************)
(* C10 as stated: when play_tick() has driven a Player to the end,         *)
(* get_play_time() is the sum of the on+off durations of the events        *)
(* executed and the note counter is the number of NOTE events executed;    *)
(* 12 and 4 for [NOTE(4,2), LOOP_START, NOTE(1,1), LOOP_END(3), END].      *)
(***************************************************************************)
C10_EndToEndTotals ==
    PlayedToTheEnd =>
        /\ get_play_time(W) = hist.dur_sum
        /\ self.note_count = hist.notes_run
        /\ song.tracks[0] = ExampleTrack => get_play_time(W) = 12 /\ self.note_count = 4

(***************************************************************************)
(* C10 as amended: when play_tick() has driven a Player to the end,        *)
(* get_play_time() is the number of play_tick() calls made, which is one   *)
(* (the call that fetched the first event) more than the sum of the        *)
(* on+off durations the executed events left pending, and the note counter *)
(* is the number of NOTE events executed that did not enter a drum         *)
(* routine; 13 and 4 for the example.                                      *)
(***************************************************************************)
C10_EndToEndTotalsPlusOne ==
    PlayedToTheEnd =>
        /\ get_play_time(W) = hist.pend_sum + 1
        /\ self.note_count = hist.notes_out
        /\ song.tracks[0] = ExampleTrack =>
              /\ get_play_time(W) = 13
              /\ self.note_count = 4
              /\ hist.dur_sum = 12
              /\ hist.notes_run = 4

\* The example has been played to its END.
C10_Witness ==
    /\ PlayedToTheEnd
    /\ song.tracks[0] = ExampleTrack
    /\ self.note_count = 4
    /\ hist.dur_sum = 12

\* The Track_Validator constructor has returned without a fault.
Validated == self.kind = "Track_Validator" /\ ~is_enabled(W) /\ ~Faulted(self)

(***************************************************************************)
(* C11: when a Track_Validator construction has succeeded, get_play_time() *)
(* is the sum of the on+off durations of the events executed in its single *)
(* pass, and get_loop_length() is that total minus the played time at the  *)
(* moment the (last) SEGNO was executed, or 0 if no SEGNO was executed.    *)
(***************************************************************************)
C11_LoopLength ==
    Validated =>
        /\ get_play_time(W) = hist.dur_sum
        /\ get_loop_length(W) = IF hist.segno_at >= 0 THEN hist.dur_sum - hist.segno_at ELSE 0

\* [NOTE(1,1), SEGNO, NOTE(1,1)] validated: length 4, SEGNO at 2, loop length 2.
C11_Witness ==
    /\ Validated
    /\ song.tracks[0] = <<NOTE(1, 1), SEGNO, NOTE(1, 1)>>
    /\ hist.segno_at = 2
    /\ get_play_time(W) = 4
    /\ get_loop_length(W) = 2

(***************************************************************************)
(* C12: between calls of a Player, enabled or ended, get_play_time() is    *)
(* the number of play_tick() calls made plus the sum of the n of the       *)
(* skip_ticks(n) calls made.                                               *)
(***************************************************************************)
C12_TickAccounting == BetweenCalls => get_play_time(W) = hist.asked

\* Five ticks were asked for, the track ended on the way, a duration was
\* played tick by tick and a key-off was written.
C12_Witness ==
    /\ BetweenCalls
    /\ ~is_enabled(W)
    /\ hist.asked = 5
    /\ get_play_time(W) = 5
    /\ hist.dur_sum = 2
    /\ self.rest_count = 2

\* A transition made inside a skip_ticks() call.
InSkip == pc \in {"skip", "skip_step", "skip_out"} \/ pc' \in {"skip", "skip_step", "skip_out"}

(***************************************************************************)
(* C13: no step of a skip_ticks(n) call invokes write_event, the step that *)
(* reaches the terminal END included, so the note counter and the rest     *)
(* counter are the same after the call as before it.                       *)
(***************************************************************************)
C13_SkipEmitsNothing ==
    [][InSkip => /\ self'.note_count = self.note_count
                 /\ self'.rest_count = self.rest_count]_vars

\* What is frozen once the player is disabled.
PlaybackState(w) ==
    [track |-> w.track, position |-> w.position, stack |-> w.stack,
     track_state |-> w.track_state, track_update_mask |-> w.track_update_mask,
     platform_state |-> w.platform_state, platform_update_mask |-> w.platform_update_mask]

(***************************************************************************)
(* C14: once is_enabled() is false it stays false under every later        *)
(* play_tick() and skip_ticks(); from then on track, position, stack,      *)
(* channel and platform state and the dirty masks do not change and the    *)
(* played time only grows; end_hook() has been called exactly once, in the *)
(* step that disabled the player, and never while it is enabled.           *)
(***************************************************************************)
C14_PermanentDisable ==
    /\ [](hist.end_hooks = IF is_enabled(W) THEN 0 ELSE 1)
    /\ [][~is_enabled(W) =>
             /\ ~is_enabled(self')
             /\ PlaybackState(self') = PlaybackState(self)
             /\ get_play_time(self') >= get_play_time(self)
             /\ ~Faulted(self')]_vars

\* A NOTE(1,1) was played to the end and four more ticks were asked for.
C14_Witness ==
    /\ BetweenCalls
    /\ ~is_enabled(W)
    /\ hist.end_hooks = 1
    /\ hist.dur_sum = 2
    /\ hist.notes_run = 1
    /\ get_play_time(W) = 7

\* The frame type a LOOP_END, LOOP_BREAK or END expects on top of the stack.
ExpectedTag(type) == IF type = "END" THEN "JUMP" ELSE "LOOP"

\* The message reserved for a frame type.
ReservedMessage(tag) ==
    CASE tag = "LOOP" -> UnterminatedLoop
      [] tag = "JUMP" -> UnexpectedLoopEnd
      [] tag = "DRUM_MODE" -> DrumNoNote

\* A step_event() call that peeks at the stack with type checking: LOOP_END,
\* LOOP_BREAK, and END when the stack is not empty.
TypeChecked ==
    /\ IsStep
    /\ \/ Fetched.type \in {"LOOP_END", "LOOP_BREAK"}
       \/ Fetched.type = "END" /\ Len(self.stack) > 0

(***************************************************************************)
(* C15: a LOOP_END or LOOP_BREAK (expecting a Loop frame) and an END met   *)
(* with a non-empty stack (expecting a Jump frame) raise the fault         *)
(* reserved for the expected tag when the stack is empty, the fault        *)
(* reserved for the tag of the top frame when that tag is another one      *)
(* (Loop: unterminated loop, Jump: unexpected loop end, Drum: drum routine *)
(* contains no note), and no fault when the top frame has the expected     *)
(* tag.                                                                    *)
(***************************************************************************)
C15_FaultSelection ==
    [][TypeChecked =>
          LET E == ExpectedTag(Fetched.type)
          IN self'.fault = IF Len(self.stack) = 0 THEN ReservedMessage(E)
                           ELSE IF Top(W).type # E THEN ReservedMessage(Top(W).type)
                           ELSE NoFault]_vars

\* A LOOP_END met inside a drum routine: the fault names the Drum frame.
C15_Witness ==
    /\ self.event.type = "LOOP_END"
    /\ get_stack_type(W) = "DRUM_MODE"
    /\ self.fault = DrumNoNote

\* A step_event() call that processes an END with the given frame type on top.
EndOn(tag) == IsStep /\ Fetched.type = "END" /\ get_stack_type(W) = tag

\* The END popped the top frame and resumed at its saved track and position.
EndResumes ==
    /\ ~Faulted(self')
    /\ self'.stack = Popped(self.stack)
    /\ self'.track = Top(W).track
    /\ self'.position = Top(W).position

(***************************************************************************)
(* C16 as stated: an END (explicit or at the end of the data) processed    *)
(* with a Jump frame or a Drum frame on top pops the frame and resumes at  *)
(* its saved track and position without a fault; only a Loop frame on top  *)
(* makes END fail.                                                         *)
(***************************************************************************)
C16_EndPopsJumpOrDrum ==
    [][/\ (EndOn("JUMP") \/ EndOn("DRUM_MODE")) => EndResumes
       /\ EndOn("LOOP") => Faulted(self')]_vars

(***************************************************************************)
(* C16 as amended: an END processed with a Jump frame on top pops it and   *)
(* resumes at its saved track and position without a fault; with a Drum    *)
(* frame on top it fails with "drum routine contains no note", with a Loop *)
(* frame on top with "unterminated loop", and the stack is left as it is.  *)
(***************************************************************************)
C16_EndPopsJumpOnly ==
    [][/\ EndOn("JUMP") => EndResumes
       /\ EndOn("DRUM_MODE") => self'.fault = DrumNoNote /\ self'.stack = self.stack
       /\ EndOn("LOOP") => self'.fault = UnterminatedLoop /\ self'.stack = self.stack]_vars

\* A drum routine has ended without a NOTE.
C16_Witness ==
    /\ self.event.type = "END"
    /\ get_stack_type(W) = "DRUM_MODE"
    /\ self.fault = DrumNoNote
    /\ song.tracks[1] = <<REST(1)>>

\* The number of frames of a type on the stack.
FramesOf(tag) == Cardinality({i \in 1..Len(self.stack) : self.stack[i].type = tag})

(***************************************************************************)
(* C17: in every reachable state get_stack_depth(tag) is the number of     *)
(* frames of that tag on the control stack (0 for an empty stack, one less *)
(* after such a frame was popped), and get_stack_type() is the tag of the  *)
(* top frame, or MAX_STACK_TYPE for an empty stack.                        *)
(***************************************************************************)
C17_StackIntrospection ==
    /\ \A tag \in StackTypes : get_stack_depth(W, tag) = FramesOf(tag)
    /\ get_stack_type(W) = IF self.stack = <<>> THEN "MAX_STACK_TYPE"
                           ELSE self.stack[Len(self.stack)].type

\* A step_event() call of a Player that processes END with an empty stack
\* after a SEGNO was executed.
EndAfterSegno ==
    /\ IsStep
    /\ self.kind = "Player"
    /\ Fetched.type = "END"
    /\ self.stack = <<>>
    /\ hist.segno_pos >= 0

(***************************************************************************)
(* C18: when a Player processes END with an empty stack after a SEGNO was  *)
(* executed, the next event fetched is the one behind the SEGNO executed   *)
(* last, in the track that holds that SEGNO (also when it was executed in  *)
(* a track entered by JUMP), the loop counter goes up by exactly 1 and the *)
(* player stays enabled.                                                   *)
(***************************************************************************)
C18_LoopReturnsToSegno ==
    [][EndAfterSegno =>
          /\ ~Faulted(self')
          /\ is_enabled(self')
          /\ self'.track = hist.segno_track
          /\ self'.position = hist.segno_pos + 1
          /\ self'.loop_count = self.loop_count + 1]_vars

(***************************************************************************)
(* A Player whose calls run to their end.  step_event() never reads        *)
(* loop_count (it only counts passes and copies it to loop_reset_count)    *)
(* nor stack_depth (it only counts pushes); here the passes are not        *)
(* limited, loop_count is followed modulo MaxLoops + 1 and pushes beyond   *)
(* max_stack_depth are counted as max_stack_depth.  The songs: tracks that *)
(* end, tracks that loop over a duration, and tracks whose region from     *)
(* SEGNO to END holds no event, a parameter event or a loop, all without   *)
(* duration.                                                               *)
(***************************************************************************)
LiveSongs ==
    { MakeSong(<<NOTE(1, 1)>>, Routine),
      MakeSong(<<SEGNO, NOTE(1, 1)>>, Routine),
      MakeSong(<<SEGNO>>, Routine),
      MakeSong(<<NOTE(1, 0), SEGNO, Cmd("VOL", 5)>>, Routine),
      MakeSong(<<NOTE(1, 1), SEGNO, LOOP_START, LOOP_END(2)>>, Routine) }

CapLoops(w) ==
    [w EXCEPT !.loop_count = @ % (MaxLoops + 1),
              !.stack_depth = [t \in StackTypes |-> Min(@[t], max_stack_depth)]]

\* One step_event() call, any number of passes allowed.
StepLive ==
    /\ Set(CapLoops(step_event(W)))
    /\ UNCHANGED hist

\* One pass of the loop of play_tick().
PlayTickStepLive ==
    /\ pc = "tick"
    /\ ~Faulted(self)
    /\ PlayTickMore(W)
    /\ StepLive
    /\ UNCHANGED <<pc, ticks>>

\* The step_event() call of the loop of skip_ticks().
SkipStepLive ==
    /\ pc = "skip_step"
    /\ ~Faulted(self)
    /\ StepLive
    /\ pc' = "skip"
    /\ UNCHANGED ticks

\* The steps of a call that has begun: the program keeps executing it.
InCall ==
    \/ PlayTickStepLive
    \/ PlayTickEnd
    \/ SkipLoop
    \/ SkipStepLive
    \/ SkipEnd

NextLive ==
    \/ PlayTickBegin
    \/ \E n \in 0..MaxSkip : SkipBegin(n)
    \/ InCall

InitLive ==
    /\ song \in LiveSongs
    /\ self = Construct("Player")
    /\ pc = "idle"
    /\ ticks = 0
    /\ hist = NoHistory

SpecLive == InitLive /\ [][NextLive]_vars /\ WF_vars(InCall)

(***************************************************************************)
(* C19: every play_tick() call and every skip_ticks(n) call returns or     *)
(* raises a fault after finitely many step_event() calls, also on a track  *)
(* whose region from SEGNO to END holds only events without duration.      *)
(***************************************************************************)
C19_TickCallsTerminate == (pc # "idle") ~> (pc = "idle" \/ Faulted(self))

\* The transition that counts a tick down at the start of play_tick().
TickCountDown == pc = "idle" /\ pc' = "tick"

\* The tick at which the on-duration goes from 1 to 0 with an off-duration pending.
KeyOffDue == self.on_time = 1 /\ self.off_time > 0

(***************************************************************************)
(* C20: under play_tick(), of a duration loaded with on-duration a > 0 and *)
(* off-duration b > 0 the tick at which the on-duration goes from 1 to 0   *)
(* hands a synthesized REST to write_event (the rest counter goes up by    *)
(* one), and no other count-down does, in particular not the one that      *)
(* ends an on-duration with b = 0; the count-down, key-off included,       *)
(* leaves channel and platform values, dirty masks, stack, track and       *)
(* position as they are and the off-duration pending.                      *)
(***************************************************************************)
C20_KeyOffBoundary ==
    [][TickCountDown =>
          /\ IF KeyOffDue
             THEN /\ self'.rest_count = self.rest_count + 1
                  /\ self'.event = Ev("REST", 0, 0, 0)
                  /\ self'.on_time = 0
                  /\ self'.off_time = self.off_time
             ELSE /\ self'.rest_count = self.rest_count
                  /\ self'.event = self.event
          /\ self'.note_count = self.note_count
          /\ PlaybackState(self') = PlaybackState(self)
          /\ ~Faulted(self')]_vars

\* NOTE(1,1): its key-off was written on the second tick, the off-duration is pending.
C20_Witness ==
    /\ song.tracks[0] = <<NOTE(1, 1)>>
    /\ pc = "tick"
    /\ hist.asked = 2
    /\ self.event = Ev("REST", 0, 0, 0)
    /\ self.on_time = 0
    /\ self.off_time = 1
    /\ self.note_count = 1
    /\ self.rest_count = 1

(***************************************************************************)
(* A Player and the driver that consumes its dirty bits: between the       *)
(* play_tick() and skip_ticks() calls it may call clear_update_flag.  The  *)
(* songs are made of events that set dirty bits and mode flags, one that   *)
(* clears a mode flag and a NOTE to let time pass.                         *)
(***************************************************************************)
FlagEvents ==
    {Cmd("VOL", 5), Cmd("VOL_FINE_REL", -2), Cmd("TEMPO_BPM", 120), Cmd("TRANSPOSE", 1),
     NOTE(1, 0)}

FlagSongs == {MakeSong(m, Routine) : m \in SeqsUpTo(FlagEvents, MaxLen)} \cup ScenarioSongs

InitFlags ==
    /\ song \in FlagSongs
    /\ self = Construct("Player")
    /\ pc = "idle"
    /\ ticks = 0
    /\ hist = NoHistory

\* The types with a channel-command slot.
ChannelCmdTypes == {t \in {EventTypes[i] : i \in 1..Len(EventTypes)} : Ord(t) >= CHANNEL_CMD}

\* A clear_update_flag(type) call.
ClearUpdateFlag(type) ==
    /\ pc = "idle"
    /\ self.kind = "Player"
    /\ ~Faulted(self)
    /\ UNCHANGED <<pc, ticks, hist>>
    /\ Set(clear_update_flag(W, type))

NextFlags ==
    \/ PlayTickBegin
    \/ PlayTickStep
    \/ PlayTickEnd
    \/ \E n \in 0..MaxSkip : SkipBegin(n)
    \/ SkipLoop
    \/ SkipStep
    \/ SkipEnd
    \/ \E type \in ChannelCmdTypes : ClearUpdateFlag(type)

SpecFlags == InitFlags /\ [][NextFlags]_vars

(***************************************************************************)
(* C21: a dirty bit of a channel-command slot that is set stays set        *)
(* through every event, play_tick() and skip_ticks(): it goes off only in  *)
(* a clear_update_flag call for that slot.  clear_update_flag(t) turns the *)
(* bit of t off and leaves the slot values, the other dirty bits, the      *)
(* platform values and mask and the coarse-volume and BPM mode flags as    *)
(* they are.                                                               *)
(***************************************************************************)
C21_DirtyBitsPersist ==
    [][\A t \in ChannelCmdTypes :
          /\ (get_update_flag(self, t) /\ ~get_update_flag(self', t)) => ClearUpdateFlag(t)
          /\ ClearUpdateFlag(t) =>
                /\ ~Faulted(self')
                /\ ~get_update_flag(self', t)
                /\ \A u \in ChannelCmdTypes \ {t} :
                      get_update_flag(self', u) = get_update_flag(self, u)
                /\ self'.track_state = self.track_state
                /\ self'.platform_state = self.platform_state
                /\ self'.platform_update_mask = self.platform_update_mask
                /\ coarse_volume_flag(self') = coarse_volume_flag(self)
                /\ bpm_flag(self') = bpm_flag(self)]_vars

\* [VOL 5, TEMPO_BPM 120, NOTE(1,0)] played to the end, then the fine-volume
\* bit consumed: the value, the tempo bit and both mode flags are still there.
C21_Witness ==
    /\ song.tracks[0] = <<Cmd("VOL", 5), Cmd("TEMPO_BPM", 120), NOTE(1, 0)>>
    /\ pc = "idle"
    /\ ~is_enabled(W)
    /\ ~get_update_flag(self, "VOL_FINE")
    /\ get_update_flag(self, "TEMPO")
    /\ CH_STATE(self, Ord("VOL_FINE")) = 5
    /\ coarse_volume_flag(self)
    /\ bpm_flag(self)

====
